---- MODULE Spec2Model ----
(***************************************************************************)
(* The bootstrap command of osd-pm                                         *)
(* (packages/osd-pm/src/commands/bootstrap.ts, BootstrapCommand.run):      *)
(* batching of the projects, the sequential install loop, the lockfile     *)
(* validation, the cache decisions and the batched build phase, over       *)
(* consecutive runs that share the persisted bootstrap cache files.        *)
(*                                                                         *)
(* The helpers the command imports (topologicallyBatchProjects,            *)
(* parallelizeBatches, BootstrapCacheFile, getAllChecksums,                *)
(* validateDependencies) are modelled from their written contract.         *)
(***************************************************************************)
EXTENDS Naturals, FiniteSets, Sequences, TLC

\* ------------------------------------------------------------- bounds
\* How many runs of the command one behaviour holds.
MaxRuns == 2
\* How many times the fingerprinted inputs of the projects change.
MaxTouches == 1

\* ------------------------------------------------------------- universe
Projects == {"a", "b", "c"}
\* The input order of the projects (the iteration order of the project map).
ProjectOrder == <<"a", "b", "c">>

Absent == <<>>
NoProject == "none"
NoLock == "unread"
Unbounded == <<>>
\* A concurrency limit of n units.
Limit(n) == <<n>>

\* The contents a yarn.lock can have: the number of distinct versions it
\* resolves the package named by the single-version option to.
LockFiles == {"one-version", "two-versions"}

\* The dependency graphs a run is given: project -> the projects it depends on.
Edge(x, y) == [p \in Projects |-> IF p = x THEN {y} ELSE {}]
Join(g, h) == [p \in Projects |-> g[p] \cup h[p]]
NoEdges == [p \in Projects |-> {}]
Graphs ==
    { NoEdges,
      Edge("b", "a"),
      Join(Edge("b", "a"), Edge("c", "b")),
      Join(Edge("b", "a"), Edge("c", "a")),
      Join(Edge("c", "a"), Edge("c", "b")),
      Join(Edge("a", "b"), Edge("b", "a")),
      Join(Edge("b", "c"), Edge("c", "b")),
      Join(Join(Edge("a", "b"), Edge("b", "c")), Edge("c", "a")) }

\* The workspaces a run is given: the workspace projects, the projects that
\* declare dependencies, an osd:bootstrap script, build targets.
Profiles ==
    { [ws |-> {}, deps |-> {"a", "b", "c"}, script |-> {"a", "c"}, targets |-> {"b", "c"}],
      [ws |-> {"a"}, deps |-> {"a", "b"}, script |-> {"a", "b"}, targets |-> {"b"}],
      [ws |-> {"b"}, deps |-> {"a"}, script |-> {"c"}, targets |-> {"a"}],
      [ws |-> {"c"}, deps |-> {"b", "c"}, script |-> {"a", "b", "c"}, targets |-> {"a"}] }

VARIABLES
    \* the projects, loaded once and immutable
    projectGraph, isWorkspaceProject, hasDependencies, hasScript, hasBuildTargets,
    \* the file system: fingerprinted inputs, yarn.lock, .bootstrap-cache files
    inputs, touches, lockFile, cacheFile,
    \* the run
    run, options, concurrencyLimit, pc, error,
    batchedProjectsByWorkspace, batchedProjects,
    installQueue, installing, installed, installCount, installRejected,
    yarnLock, checksums, caches,
    batchIndex, unit, firstFailed,
    \* what the run did (history)
    effects, invoked, rejected, prevUnfinished, prevBatches, cleanStart, changed, snapshot

projectVars == <<projectGraph, isWorkspaceProject, hasDependencies, hasScript, hasBuildTargets>>
fsVars == <<inputs, touches, lockFile, cacheFile>>
batchVars == <<batchedProjectsByWorkspace, batchedProjects>>
installVars == <<installQueue, installing, installed, installCount, installRejected>>
checksumVars == <<yarnLock, checksums, caches>>
buildVars == <<batchIndex, unit, firstFailed>>
historyVars == <<prevUnfinished, prevBatches, cleanStart, changed, snapshot>>
runVars == <<run, options, concurrencyLimit>>
vars == <<projectVars, fsVars, runVars, pc, error, batchVars, installVars,
          checksumVars, buildVars, effects, invoked, rejected, historyVars>>

\* ------------------------------------------------------------- helpers
InOrder(S) == SelectSeq(ProjectOrder, LAMBDA p : p \in S)

RECURSIVE Flatten(_)
Flatten(batches) ==
    IF batches = <<>> THEN <<>> ELSE InOrder(Head(batches)) \o Flatten(Tail(batches))

NoError == [kind |-> "none", projects |-> {}]
Err(kind, ps) == [kind |-> kind, projects |-> ps]

\* ------------------------------------------------------------- batching
\* Repeated layering: a batch is every project left whose dependencies are
\* all batched already; no such project while some are left is a cycle.
RECURSIVE Layer(_, _, _)
Layer(left, edges, acc) ==
    IF left = {} THEN [ok |-> TRUE, batches |-> acc]
    ELSE LET ready == {p \in left : edges[p] \cap left = {}}
         IN  IF ready = {} THEN [ok |-> FALSE, batches |-> acc]
             ELSE Layer(left \ ready, edges, Append(acc, ready))

\* The edges that gate the install-scoped batching: none into or out of a
\* workspace project.
ScopedEdges(graph) ==
    [p \in Projects |->
        IF isWorkspaceProject[p] THEN {}
        ELSE {d \in graph[p] : ~isWorkspaceProject[d]}]

topologicallyBatchProjects(projects, graph, batchByWorkspace) ==
    Layer(projects, IF batchByWorkspace THEN ScopedEdges(graph) ELSE graph, <<>>)

\* ------------------------------------------------------------- cache file
\* The fingerprint of a project: its inputs and the lock information.
Fingerprint(p, lock) == <<p, inputs[p], lock>>
getAllChecksums(lock) == [p \in Projects |-> Fingerprint(p, lock)]

FileIsValid(p, expected) == cacheFile[p] # Absent /\ cacheFile[p] = expected
FileDelete(files, p) == [files EXCEPT ![p] = Absent]
FileWrite(files, p, expected) == [files EXCEPT ![p] = expected]

\* ------------------------------------------------------------- the run
Terminal == {"done", "failed", "interrupted"}

\* The full batching is left to the build phase: only the install-scoped
\* batching runs before the installs.
PreflightLazy == topologicallyBatchProjects(Projects, projectGraph, TRUE).ok

\* bootstrap.ts 47-50: both batchings are computed before anything else; a
\* cycle makes either throw.
PreflightOk ==
    /\ topologicallyBatchProjects(Projects, projectGraph, TRUE).ok
    /\ topologicallyBatchProjects(Projects, projectGraph, FALSE).ok

\* The build phase batched by workspace, as the install phase is.
FullBatchingByWorkspace == topologicallyBatchProjects(Projects, projectGraph, TRUE)

\* bootstrap.ts 50: the batches of the build phase take every edge.
FullBatching == topologicallyBatchProjects(Projects, projectGraph, FALSE)

\* The install-scoped batches handed to the build phase.
BuildBatchesOfInstall == batchedProjectsByWorkspace

\* bootstrap.ts 105: the batches handed to parallelizeBatches.
BuildBatches == batchedProjects

\* bootstrap.ts 59-66: the projects the install loop invokes the install for.
NeedsInstall(p) == ~isWorkspaceProject[p] /\ hasDependencies[p]

\* The install is not awaited: the loop goes on while it is in flight.
InstallsInParallel == FALSE

\* bootstrap.ts 65: the install of a project is awaited before the loop goes on.
AwaitsInstall == TRUE

\* The loop catches an install that throws and goes on.
AfterInstallCaught(ok) == "install"

\* bootstrap.ts 65: an install that throws ends the run.
AfterInstall(ok) == IF ok THEN "install" ELSE "failed"

\* The validation is not awaited: its failure does not stop the run.
AfterValidateIgnored(ok) == "link"

\* bootstrap.ts 72: a validation that throws ends the run.
AfterValidate(ok) == IF ok THEN "link" ELSE "failed"

\* validateDependencies: the single-version package must resolve to one version.
validateDependencies(lock, singleVersion) ==
    ~(singleVersion /\ lock = "two-versions")

\* bootstrap.ts 88: the projects that get a cache file and a decision.
NeedsBootstrap(p) == hasScript[p] \/ hasBuildTargets[p]

\* The cache option is not consulted.
CacheDecisionNoOption(p, expected) == FileIsValid(p, expected)

\* bootstrap.ts 90: valid = options.cache && file.isValid()
CacheDecision(p, expected) == options.cache /\ FileIsValid(p, expected)

\* The cache file of a project decided stale is deleted with the decision.
CacheAtDecisionPurged ==
    [p \in Projects |->
        IF NeedsBootstrap(p) /\ ~CacheDecision(p, checksums[p])
        THEN Absent ELSE cacheFile[p]]

\* bootstrap.ts 87-99: the decisions read the cache files and leave them.
CacheAtDecision == cacheFile

\* The unit looks again: it also acts when a dependency was rebuilt in the run.
UnitRunsAfterRebuiltDependency(p) ==
    /\ p \in DOMAIN caches
    /\ ~caches[p].valid \/ \E d \in projectGraph[p] : unit[d] = "done"

\* The unit acts with any cache entry, valid or not.
UnitRunsWhenDecided(p) == p \in DOMAIN caches

\* bootstrap.ts 107: the unit acts only with a cache entry that is not valid.
UnitRuns(p) == p \in DOMAIN caches /\ ~caches[p].valid

\* The script overrides the build targets.
BuildActionScriptFirst(p) == IF hasScript[p] THEN "script" ELSE "targets"

\* bootstrap.ts 109-125: explicitly defined targets override the script.
BuildAction(p) == IF hasBuildTargets[p] THEN "targets" ELSE "script"

\* The unit clears every cache file before its build.
CacheAtInvokePurgeAll(p) == [q \in Projects |-> Absent]

\* The cache file is left in place while the build runs.
CacheAtInvokeKept(p) == cacheFile

\* bootstrap.ts 118, 123: the cache file is deleted before the build is invoked.
CacheAtInvoke(p) == FileDelete(cacheFile, p)

\* The cache file is not written after the build.
CacheAfterSuccessUnwritten(p) == cacheFile

\* The fingerprint is computed again when the cache file is written.
CacheAfterSuccessRecomputed(p) == FileWrite(cacheFile, p, Fingerprint(p, yarnLock))

\* bootstrap.ts 127: the cache file is written once the build has returned.
CacheAfterSuccess(p) == FileWrite(cacheFile, p, caches[p].expected)

\* The cache file is written in a finally block, also when the build throws.
CacheAfterFailureWritten(p) == FileWrite(cacheFile, p, caches[p].expected)

\* bootstrap.ts 119, 124: a build that throws leaves the unit before line 127.
CacheAfterFailure(p) == cacheFile

\* The unit catches the rejection of the build and resolves.
UnitOnRejectSwallowed == "done"

\* bootstrap.ts 119, 124: the rejection of the build is the rejection of the unit.
UnitOnReject == "failed"

InFlight == {p \in Projects : unit[p] = "building"}
Failed == {p \in Projects : unit[p] = "failed"}
Settled(p) == unit[p] \in {"done", "skipped", "failed"}

\* The batch counts as settled once each of its units has started.
BatchSettledOnceStarted(i) == \A p \in BuildBatches[i] : unit[p] # "pending"

\* The batch counts as settled at the first failure of one of its units.
BatchSettledAtFailure(i) ==
    \/ \E p \in BuildBatches[i] : unit[p] = "failed"
    \/ \A p \in BuildBatches[i] : Settled(p)

\* parallelizeBatches: a batch has settled once each of its units has.
BatchSettled(i) == \A p \in BuildBatches[i] : Settled(p)

\* A unit of the current batch starts whatever the number of units that run.
CanStartOverLimit(p) ==
    /\ pc = "build"
    /\ batchIndex \in 1..Len(BuildBatches)
    /\ p \in BuildBatches[batchIndex]
    /\ unit[p] = "pending"

\* A unit of the current batch starts while fewer units than the limit run.
CanStart(p) ==
    /\ pc = "build"
    /\ batchIndex \in 1..Len(BuildBatches)
    /\ p \in BuildBatches[batchIndex]
    /\ unit[p] = "pending"
    /\ IF concurrencyLimit = Unbounded THEN TRUE
       ELSE Cardinality(InFlight) < concurrencyLimit[1]

\* ------------------------------------------------------------- initial state
\* A fresh checkout: no cache file yet, no run started.
Init ==
    /\ projectGraph \in Graphs
    /\ \E w \in Profiles :
           /\ isWorkspaceProject = [p \in Projects |-> p \in w.ws]
           /\ hasDependencies = [p \in Projects |-> p \in w.deps]
           /\ hasScript = [p \in Projects |-> p \in w.script]
           /\ hasBuildTargets = [p \in Projects |-> p \in w.targets]
    /\ inputs = [p \in Projects |-> 0]
    /\ touches = 0
    /\ lockFile \in LockFiles
    /\ cacheFile = [p \in Projects |-> Absent]
    /\ run = 0
    /\ options = [cache |-> TRUE, singleVersion |-> FALSE]
    /\ concurrencyLimit = Unbounded
    /\ pc = "idle"
    /\ error = NoError
    /\ batchedProjectsByWorkspace = <<>>
    /\ batchedProjects = <<>>
    /\ installQueue = <<>>
    /\ installing = {}
    /\ installed = {}
    /\ installCount = [p \in Projects |-> 0]
    /\ installRejected = {}
    /\ yarnLock = NoLock
    /\ checksums = <<>>
    /\ caches = <<>>
    /\ batchIndex = 0
    /\ unit = [p \in Projects |-> "pending"]
    /\ firstFailed = NoProject
    /\ effects = {}
    /\ invoked = [p \in Projects |-> {}]
    /\ rejected = {}
    /\ prevUnfinished = {}
    /\ prevBatches = <<>>
    /\ cleanStart = FALSE
    /\ changed = FALSE
    /\ snapshot = [p \in Projects |-> Absent]

\* ------------------------------------------------------------- actions
\* bootstrap.ts 46-50: a run starts and batches the projects twice.
StartRun(cache, singleVersion) ==
    /\ pc \in Terminal \cup {"idle"}
    /\ run < MaxRuns
    /\ run' = run + 1
    /\ options' = [cache |-> cache, singleVersion |-> singleVersion]
    /\ batchedProjectsByWorkspace' =
           topologicallyBatchProjects(Projects, projectGraph, TRUE).batches
    /\ batchedProjects' = FullBatching.batches
    /\ IF PreflightOk
       THEN /\ pc' = "install"
            /\ error' = NoError
            /\ installQueue' = Flatten(batchedProjectsByWorkspace')
       ELSE /\ pc' = "failed"
            /\ error' = Err("CyclicDependencyError", {})
            /\ installQueue' = <<>>
    /\ installing' = {}
    /\ installed' = {}
    /\ installCount' = [p \in Projects |-> 0]
    /\ installRejected' = {}
    /\ yarnLock' = NoLock
    /\ checksums' = <<>>
    /\ caches' = <<>>
    /\ batchIndex' = 0
    /\ unit' = [p \in Projects |-> "pending"]
    /\ firstFailed' = NoProject
    /\ effects' = {}
    /\ invoked' = [p \in Projects |-> {}]
    /\ rejected' = {}
    /\ prevUnfinished' = {p \in Projects : unit[p] \in {"building", "failed", "interrupted"}}
    /\ prevBatches' = batchedProjects
    /\ cleanStart' = (pc = "done" /\ ~changed)
    /\ changed' = FALSE
    /\ snapshot' = cacheFile
    /\ UNCHANGED <<projectVars, fsVars, concurrencyLimit>>

\* bootstrap.ts 57-68: the loop passes the projects it does not install and
\* awaits the install of the next one; past the last it reads yarn.lock (70).
InstallNext ==
    /\ pc = "install"
    /\ AwaitsInstall => installing = {}
    /\ LET todo == {i \in 1..Len(installQueue) : NeedsInstall(installQueue[i])}
       IN  IF todo = {}
           THEN /\ installing = {}
                /\ installQueue' = <<>>
                /\ installing' = installing
                /\ installCount' = installCount
                /\ pc' = "readYarnLock"
                /\ effects' = effects
           ELSE LET i == CHOOSE j \in todo : \A k \in todo : j <= k
                IN  /\ installing' = installing \cup {installQueue[i]}
                    /\ installCount' = [installCount EXCEPT ![installQueue[i]] = @ + 1]
                    /\ installQueue' = SubSeq(installQueue, i + 1, Len(installQueue))
                    /\ pc' = pc
                    /\ effects' = effects \cup {"install"}
    /\ UNCHANGED <<projectVars, fsVars, runVars, error, batchVars, installed,
                   installRejected, checksumVars, buildVars, invoked, rejected,
                   historyVars>>

\* bootstrap.ts 65: the awaited install returns, or throws and ends the run.
InstallDone(p, ok) ==
    /\ pc = "install"
    /\ p \in installing
    /\ installing' = installing \ {p}
    /\ installed' = IF ok THEN installed \cup {p} ELSE installed
    /\ installRejected' = IF ok THEN installRejected ELSE installRejected \cup {p}
    /\ pc' = AfterInstall(ok)
    /\ error' = IF pc' = "failed" THEN Err("InstallError", {p}) ELSE error
    /\ UNCHANGED <<projectVars, fsVars, runVars, batchVars, installQueue,
                   installCount, checksumVars, buildVars, effects, invoked, rejected,
                   historyVars>>

\* bootstrap.ts 70: yarn.lock is read.
ReadYarnLock ==
    /\ pc = "readYarnLock"
    /\ yarnLock' = lockFile
    /\ pc' = "validate"
    /\ effects' = effects \cup {"readYarnLock"}
    /\ UNCHANGED <<projectVars, fsVars, runVars, error, batchVars, installVars,
                   checksums, caches, buildVars, invoked, rejected, historyVars>>

\* bootstrap.ts 72: the dependencies are validated against the lock information.
ValidateDependencies ==
    /\ pc = "validate"
    /\ LET ok == validateDependencies(yarnLock, options.singleVersion)
       IN  /\ pc' = AfterValidate(ok)
           /\ error' = IF pc' = "failed" THEN Err("LockValidationError", {}) ELSE error
    /\ effects' = effects \cup {"validate"}
    /\ UNCHANGED <<projectVars, fsVars, runVars, batchVars, installVars,
                   checksumVars, buildVars, invoked, rejected, historyVars>>

\* bootstrap.ts 74: the executables of the projects are linked.
LinkProjectExecutables ==
    /\ pc = "link"
    /\ pc' = "checksums"
    /\ effects' = effects \cup {"link"}
    /\ UNCHANGED <<projectVars, fsVars, runVars, error, batchVars, installVars,
                   checksumVars, buildVars, invoked, rejected, historyVars>>

\* bootstrap.ts 83: the checksums of all projects, from the lock information read.
GetAllChecksums ==
    /\ pc = "checksums"
    /\ checksums' = getAllChecksums(yarnLock)
    /\ pc' = "caches"
    /\ UNCHANGED <<projectVars, fsVars, runVars, error, batchVars, installVars,
                   yarnLock, caches, buildVars, effects, invoked, rejected, historyVars>>

\* bootstrap.ts 84-105: one cache file and one decision per project with a
\* bootstrap script or build targets; the build phase starts at the first batch.
ComputeCaches ==
    /\ pc = "caches"
    /\ caches' = [p \in {q \in Projects : NeedsBootstrap(q)} |->
                     [expected |-> checksums[p],
                      valid |-> CacheDecision(p, checksums[p])]]
    /\ cacheFile' = CacheAtDecision
    /\ pc' = "build"
    /\ batchIndex' = 1
    /\ UNCHANGED <<projectVars, inputs, touches, lockFile, runVars, error, batchVars, installVars,
                   yarnLock, checksums, unit, firstFailed, effects, invoked,
                   rejected, historyVars>>

\* bootstrap.ts 105-125: the unit of a project starts; with a stale cache entry
\* it deletes the cache file and invokes the build, otherwise it returns.
StartUnit(p) ==
    /\ CanStart(p)
    /\ IF UnitRuns(p)
       THEN /\ cacheFile' = CacheAtInvoke(p)
            /\ unit' = [unit EXCEPT ![p] = "building"]
            /\ invoked' = [invoked EXCEPT ![p] = @ \cup {BuildAction(p)}]
            /\ effects' = effects \cup {"cacheDelete", "build"}
       ELSE /\ cacheFile' = cacheFile
            /\ unit' = [unit EXCEPT ![p] = "skipped"]
            /\ invoked' = invoked
            /\ effects' = effects
    /\ UNCHANGED <<projectVars, inputs, touches, lockFile, runVars, pc, error, batchVars,
                   installVars, checksumVars, batchIndex, firstFailed, rejected,
                   historyVars>>

\* bootstrap.ts 119-128: the awaited build returns; the cache file is written.
BuildSucceeds(p) ==
    /\ pc = "build"
    /\ unit[p] = "building"
    /\ cacheFile' = CacheAfterSuccess(p)
    /\ unit' = [unit EXCEPT ![p] = "done"]
    /\ effects' = effects \cup {"cacheWrite"} \cup
                      (IF Failed # {} THEN {"commitAfterFailure"} ELSE {})
    /\ UNCHANGED <<projectVars, inputs, touches, lockFile, runVars, pc, error, batchVars,
                   installVars, checksumVars, batchIndex, firstFailed, invoked,
                   rejected, historyVars>>

\* bootstrap.ts 119, 124: the awaited build throws; the unit rejects.
BuildFails(p) ==
    /\ pc = "build"
    /\ unit[p] = "building"
    /\ cacheFile' = CacheAfterFailure(p)
    /\ unit' = [unit EXCEPT ![p] = UnitOnReject]
    /\ rejected' = rejected \cup {p}
    /\ firstFailed' = IF firstFailed = NoProject /\ unit'[p] = "failed"
                      THEN p ELSE firstFailed
    /\ effects' = IF cacheFile' = cacheFile THEN effects
                  ELSE effects \cup {"cacheWrite"}
    /\ UNCHANGED <<projectVars, inputs, touches, lockFile, runVars, pc, error, batchVars,
                   installVars, checksumVars, batchIndex, invoked, historyVars>>

\* parallelizeBatches: once every unit of the batch has settled, a failure
\* is propagated (the first one, or all of them), else the next batch starts.
SettleBatch ==
    /\ pc = "build"
    /\ batchIndex \in 1..Len(BuildBatches)
    /\ BatchSettled(batchIndex)
    /\ IF Failed # {}
       THEN /\ pc' = "failed"
            /\ \E reported \in {{firstFailed}, Failed} :
                   error' = Err("BuildError", reported)
            /\ batchIndex' = batchIndex
       ELSE /\ error' = error
            /\ IF batchIndex < Len(BuildBatches)
               THEN batchIndex' = batchIndex + 1 /\ pc' = pc
               ELSE batchIndex' = batchIndex /\ pc' = "done"
    /\ UNCHANGED <<projectVars, fsVars, runVars, batchVars, installVars,
                   checksumVars, unit, firstFailed, effects, invoked, rejected,
                   historyVars>>

\* The process is killed while builds are in flight.
Interrupt ==
    /\ pc = "build"
    /\ InFlight # {}
    /\ pc' = "interrupted"
    /\ unit' = [p \in Projects |-> IF unit[p] = "building" THEN "interrupted" ELSE unit[p]]
    /\ UNCHANGED <<projectVars, fsVars, runVars, error, batchVars, installVars,
                   checksumVars, batchIndex, firstFailed, effects, invoked, rejected,
                   historyVars>>

\* Between two runs a fingerprinted input of a project changes.
Touch(p) ==
    /\ pc \in Terminal
    /\ run < MaxRuns
    /\ touches < MaxTouches
    /\ touches' = touches + 1
    /\ inputs' = [inputs EXCEPT ![p] = @ + 1]
    /\ changed' = TRUE
    /\ UNCHANGED <<projectVars, lockFile, cacheFile, runVars, pc, error, batchVars,
                   installVars, checksumVars, buildVars, effects, invoked, rejected,
                   prevUnfinished, prevBatches, cleanStart, snapshot>>

\* The single-version option of a run: given or not against a lock with two
\* versions; given against a lock with one version (without the option the
\* validation does not look at the versions).
SingleVersionChoices == IF lockFile = "one-version" THEN {TRUE} ELSE BOOLEAN

Next ==
    \/ \E cache \in BOOLEAN, singleVersion \in SingleVersionChoices :
           StartRun(cache, singleVersion)
    \/ InstallNext
    \/ \E p \in Projects, ok \in BOOLEAN : InstallDone(p, ok)
    \/ ReadYarnLock
    \/ ValidateDependencies
    \/ LinkProjectExecutables
    \/ GetAllChecksums
    \/ ComputeCaches
    \/ \E p \in Projects : StartUnit(p)
    \/ \E p \in Projects : BuildSucceeds(p)
    \/ \E p \in Projects : BuildFails(p)
    \/ SettleBatch
    \/ Interrupt
    \/ \E p \in Projects : Touch(p)

Spec == Init /\ [][Next]_vars

\* ------------------------------------------------------------- batching alone
\* Every graph over the projects, with every choice of workspace projects.
InitBatch ==
    /\ projectGraph \in [Projects -> SUBSET Projects]
    /\ isWorkspaceProject \in [Projects -> BOOLEAN]
    /\ hasDependencies = [p \in Projects |-> TRUE]
    /\ hasScript = [p \in Projects |-> TRUE]
    /\ hasBuildTargets = [p \in Projects |-> FALSE]
    /\ inputs = [p \in Projects |-> 0]
    /\ touches = 0
    /\ lockFile = "one-version"
    /\ cacheFile = [p \in Projects |-> Absent]
    /\ run = 0
    /\ options = [cache |-> TRUE, singleVersion |-> FALSE]
    /\ concurrencyLimit = Unbounded
    /\ pc = "idle"
    /\ error = NoError
    /\ batchedProjectsByWorkspace = <<>>
    /\ batchedProjects = <<>>
    /\ installQueue = <<>>
    /\ installing = {}
    /\ installed = {}
    /\ installCount = [p \in Projects |-> 0]
    /\ installRejected = {}
    /\ yarnLock = NoLock
    /\ checksums = <<>>
    /\ caches = <<>>
    /\ batchIndex = 0
    /\ unit = [p \in Projects |-> "pending"]
    /\ firstFailed = NoProject
    /\ effects = {}
    /\ invoked = [p \in Projects |-> {}]
    /\ rejected = {}
    /\ prevUnfinished = {}
    /\ prevBatches = <<>>
    /\ cleanStart = FALSE
    /\ changed = FALSE
    /\ snapshot = [p \in Projects |-> Absent]

NextBatch ==
    \/ \E cache \in BOOLEAN, singleVersion \in SingleVersionChoices :
           StartRun(cache, singleVersion)
    \/ InstallNext

SpecBatch == InitBatch /\ [][NextBatch]_vars

\* ------------------------------------------------------------- limited scheduler
\* The build phase under a concurrency limit: independent projects, or one
\* dependency, each project with a script or build targets.
InitLimit ==
    /\ projectGraph \in {NoEdges, Edge("b", "a")}
    /\ isWorkspaceProject = [p \in Projects |-> FALSE]
    /\ hasDependencies = [p \in Projects |-> p = "a"]
    /\ hasScript = [p \in Projects |-> TRUE]
    /\ hasBuildTargets \in {[p \in Projects |-> FALSE], [p \in Projects |-> p = "c"]}
    /\ inputs = [p \in Projects |-> 0]
    /\ touches = 0
    /\ lockFile = "one-version"
    /\ cacheFile = [p \in Projects |-> Absent]
    /\ run = 0
    /\ options = [cache |-> TRUE, singleVersion |-> FALSE]
    /\ concurrencyLimit \in {Limit(1), Limit(2), Unbounded}
    /\ pc = "idle"
    /\ error = NoError
    /\ batchedProjectsByWorkspace = <<>>
    /\ batchedProjects = <<>>
    /\ installQueue = <<>>
    /\ installing = {}
    /\ installed = {}
    /\ installCount = [p \in Projects |-> 0]
    /\ installRejected = {}
    /\ yarnLock = NoLock
    /\ checksums = <<>>
    /\ caches = <<>>
    /\ batchIndex = 0
    /\ unit = [p \in Projects |-> "pending"]
    /\ firstFailed = NoProject
    /\ effects = {}
    /\ invoked = [p \in Projects |-> {}]
    /\ rejected = {}
    /\ prevUnfinished = {}
    /\ prevBatches = <<>>
    /\ cleanStart = FALSE
    /\ changed = FALSE
    /\ snapshot = [p \in Projects |-> Absent]

NextLimit ==
    \/ \E cache \in BOOLEAN : StartRun(cache, FALSE)
    \/ InstallNext
    \/ \E p \in Projects, ok \in BOOLEAN : InstallDone(p, ok)
    \/ ReadYarnLock
    \/ ValidateDependencies
    \/ LinkProjectExecutables
    \/ GetAllChecksums
    \/ ComputeCaches
    \/ \E p \in Projects : StartUnit(p)
    \/ \E p \in Projects : BuildSucceeds(p)
    \/ \E p \in Projects : BuildFails(p)
    \/ SettleBatch

SpecLimit == InitLimit /\ [][NextLimit]_vars

\* ------------------------------------------------------------- inputs edited
\* While the build phase runs a fingerprinted input of a project changes.
TouchDuringBuild(p) ==
    /\ pc = "build"
    /\ touches < MaxTouches
    /\ touches' = touches + 1
    /\ inputs' = [inputs EXCEPT ![p] = @ + 1]
    /\ changed' = TRUE
    /\ UNCHANGED <<projectVars, lockFile, cacheFile, runVars, pc, error, batchVars,
                   installVars, checksumVars, buildVars, effects, invoked, rejected,
                   prevUnfinished, prevBatches, cleanStart, snapshot>>

NextEdit ==
    \/ NextLimit
    \/ \E p \in Projects : TouchDuringBuild(p)

SpecEdit == InitLimit /\ [][NextEdit]_vars

\* ------------------------------------------------------------- properties
Started(p) == unit[p] # "pending"
Completed(p) == unit[p] \in {"done", "skipped"}
Unfinished(p) == unit[p] \in {"building", "failed", "interrupted"}
\* The cache decisions of the run have been computed.
Decided == batchIndex >= 1

\* C1: in the build phase no unit of a project has begun unless the unit of
\* each project it depends on has completed, in every interleaving.
C1_DependencyBeforeDependent ==
    \A b \in Projects : \A a \in projectGraph[b] :
        Started(b) => Completed(a)

\* A dependent is building after its dependency was built in the same run.
C1_Witness ==
    \E b \in Projects : \E a \in projectGraph[b] :
        unit[b] = "building" /\ unit[a] = "done"

\* C2: a project whose build was started in this run and has not completed
\* successfully (in flight, failed, interrupted) has no persisted cache record.
C2_NoRecordUntilSuccess ==
    \A p \in Projects : Unfinished(p) => cacheFile[p] = Absent

\* A build failed in a run that began with a record of that project.
C2_Witness ==
    \E p \in Projects : unit[p] = "failed" /\ snapshot[p] # Absent

\* C3: a project whose build failed or was interrupted in the previous run has
\* no record until its unit runs again; the next run decides it stale, never
\* skips it, and completes only with its build done again.
C3_FailedBuildIsRetried ==
    \A p \in prevUnfinished :
        /\ unit[p] = "pending" => cacheFile[p] = Absent
        /\ Decided => (p \in DOMAIN caches /\ ~caches[p].valid)
        /\ unit[p] # "skipped"
        /\ pc = "done" => (unit[p] = "done" /\ invoked[p] # {})

\* With caching enabled, a project that failed in the previous run is built
\* again while another project is skipped as valid.
C3_Witness ==
    \E p \in prevUnfinished : \E q \in DOMAIN caches :
        /\ options.cache
        /\ unit[p] = "building"
        /\ unit[q] = "skipped"

\* C4: with caching enabled, a run that follows a successful run with no
\* input changed has the same batches, only valid decisions and no build.
C4_SecondRunBuildsNothing ==
    (cleanStart /\ options.cache) =>
        /\ batchedProjects = prevBatches
        /\ Decided => \A p \in DOMAIN caches : caches[p].valid
        /\ \A p \in Projects : invoked[p] = {} /\ unit[p] \in {"pending", "skipped"}
        /\ effects \cap {"cacheDelete", "build", "cacheWrite"} = {}

\* Such a second run is done, having skipped every project, each with a decision.
C4_Witness ==
    /\ cleanStart
    /\ options.cache
    /\ pc = "done"
    /\ DOMAIN caches = Projects
    /\ \A p \in Projects : unit[p] = "skipped"

\* C5: the decision of a project with a script or build targets is valid iff
\* caching is enabled and the record the run found equals the fingerprint of
\* the project's inputs and the lock information.
C5_ValidIffEnabledAndFingerprintEqual ==
    (Decided /\ ~changed) =>
        \A p \in Projects :
            /\ p \in DOMAIN caches <=> (hasScript[p] \/ hasBuildTargets[p])
            /\ p \in DOMAIN caches =>
                   (caches[p].valid <=>
                        /\ options.cache
                        /\ snapshot[p] # Absent
                        /\ snapshot[p] = <<p, inputs[p], lockFile>>)

\* With caching enabled one project is valid while another, whose inputs
\* changed since its record was written, is stale.
C5_Witness ==
    /\ Decided
    /\ ~changed
    /\ options.cache
    /\ \E p \in DOMAIN caches : \E q \in DOMAIN caches :
           /\ caches[p].valid
           /\ ~caches[q].valid
           /\ snapshot[q] # Absent

\* C6: a unit that invokes a build invokes one kind only: the build targets
\* when the project declares them, the osd:bootstrap script otherwise.
C6_TargetsOverrideScript ==
    \A p \in Projects :
        /\ unit[p] \in {"building", "done", "failed", "interrupted"} =>
               invoked[p] = {IF hasBuildTargets[p] THEN "targets" ELSE "script"}
        /\ unit[p] \in {"pending", "skipped"} => invoked[p] = {}
        /\ "script" \in invoked[p] => (hasScript[p] /\ ~hasBuildTargets[p])

\* A project that declares both has been built by its targets.
C6_Witness ==
    \E p \in Projects :
        /\ hasScript[p]
        /\ hasBuildTargets[p]
        /\ unit[p] = "done"
        /\ invoked[p] = {"targets"}

\* The index of the build batch of a project (0: in no batch).
BatchOf(p) ==
    IF \E i \in 1..Len(batchedProjects) : p \in batchedProjects[i]
    THEN CHOOSE i \in 1..Len(batchedProjects) : p \in batchedProjects[i]
    ELSE 0

\* What holds in a run once the build of project a has failed, but for the
\* project the error names: no dependent and no later batch starts, the run
\* never ends done, and an end in failure is a BuildError.
AfterFailureOf(a) ==
    /\ \A b \in Projects : a \in projectGraph[b] => unit[b] = "pending"
    /\ \A q \in Projects : BatchOf(q) > BatchOf(a) => unit[q] = "pending"
    /\ pc # "done"
    /\ pc = "failed" => error.kind = "BuildError"

\* C7 (as stated): once the build of a has failed, neither a dependent of a nor
\* a unit of a later batch starts, and the run fails with a BuildError that
\* identifies a.
C7_Original ==
    \A b \in Projects : \A a \in projectGraph[b] :
        a \in rejected =>
            /\ AfterFailureOf(a)
            /\ pc = "failed" => a \in error.projects

\* C7 (amended): ... and the run fails with a BuildError that identifies the
\* project of a's batch whose build failed first, and only projects of that
\* batch whose build failed; it identifies a when a failed first.
C7_FailureStopsLaterBatches ==
    \A b \in Projects : \A a \in projectGraph[b] :
        a \in rejected =>
            /\ AfterFailureOf(a)
            /\ pc = "failed" =>
                   /\ firstFailed \in error.projects
                   /\ error.projects \subseteq
                          {q \in rejected : BatchOf(q) = BatchOf(a)}
                   /\ firstFailed = a => a \in error.projects
                   /\ rejected = {a} => error.projects = {a}

\* The run has failed on a, naming a, with a dependent of a never started.
C7_Witness ==
    \E b \in Projects : \E a \in projectGraph[b] :
        /\ a \in rejected
        /\ pc = "failed"
        /\ error = Err("BuildError", {a})
        /\ unit[b] = "pending"

\* The projects first reached from the projects S along the edges of g.
RECURSIVE Reach(_, _, _)
Reach(g, S, seen) ==
    LET next == (UNION {g[q] : q \in S}) \ seen
    IN  IF next = {} THEN seen ELSE Reach(g, next, seen \cup next)
HasCycle(g) == \E p \in Projects : p \in Reach(g, {p}, {})

\* C8: for an acyclic graph the batches of the build phase cover the projects,
\* hold each project once, and hold each dependency in an earlier batch than
\* its dependent.
C8_BatchesPartitionInDependencyOrder ==
    (run >= 1 /\ ~HasCycle(projectGraph)) =>
        /\ error.kind # "CyclicDependencyError"
        /\ UNION {batchedProjects[i] : i \in 1..Len(batchedProjects)} = Projects
        /\ \A i \in 1..Len(batchedProjects) : \A j \in 1..Len(batchedProjects) :
               i # j => batchedProjects[i] \cap batchedProjects[j] = {}
        /\ \A b \in Projects : \A a \in projectGraph[b] :
               \E i \in 1..Len(batchedProjects) : \E j \in 1..Len(batchedProjects) :
                   a \in batchedProjects[i] /\ b \in batchedProjects[j] /\ i < j

\* A chain of three projects, one of them a workspace project, is batched.
C8_Witness ==
    /\ run >= 1
    /\ ~HasCycle(projectGraph)
    /\ Len(batchedProjects) = Cardinality(Projects)
    /\ \E p \in Projects : isWorkspaceProject[p]

\* C9: with a cycle in the graph the run fails with CyclicDependencyError
\* before any side effect: no install, no lockfile read or validation, no
\* linking, no cache file deleted or written, no build.
C9_CycleAbortsBeforeSideEffects ==
    (run >= 1 /\ HasCycle(projectGraph)) =>
        /\ pc = "failed"
        /\ error.kind = "CyclicDependencyError"
        /\ effects = {}
        /\ installed = {} /\ installing = {}
        /\ cacheFile = snapshot
        /\ \A p \in Projects : unit[p] = "pending" /\ invoked[p] = {}

\* The run failed on a cycle that the install-scoped batching does not see.
C9_Witness ==
    /\ run >= 1
    /\ HasCycle(projectGraph)
    /\ topologicallyBatchProjects(Projects, projectGraph, TRUE).ok
    /\ pc = "failed"

\* The validation of this run has run and failed.
ValidationFailed ==
    /\ "validate" \in effects
    /\ options.singleVersion
    /\ yarnLock = "two-versions"

\* C10: once the lockfile validation has failed the run has failed with
\* LockValidationError: no cache decision is computed, no cache file is
\* deleted or written, no build unit starts.
C10_ValidationFailureStopsBeforeBuild ==
    ValidationFailed =>
        /\ pc = "failed"
        /\ error.kind = "LockValidationError"
        /\ checksums = <<>> /\ caches = <<>> /\ ~Decided
        /\ cacheFile = snapshot
        /\ effects \cap {"link", "cacheDelete", "cacheWrite", "build"} = {}
        /\ \A p \in Projects : unit[p] = "pending" /\ invoked[p] = {}

\* The validation failed in a run that found a cache record and had installed.
C10_Witness ==
    /\ ValidationFailed
    /\ pc = "failed"
    /\ installed # {}
    /\ \E p \in Projects : snapshot[p] # Absent

\* The projects still ahead of the install loop.
InstallAhead == {installQueue[i] : i \in 1..Len(installQueue)}

\* C11: at most one install is in flight at any instant; an install is invoked
\* only for a project that is no workspace project and declares dependencies,
\* and at most once per project in a run.
C11_InstallsOneAtATime ==
    /\ Cardinality(installing) <= 1
    /\ \A p \in Projects :
           /\ installCount[p] <= 1
           /\ installCount[p] >= 1 => (~isWorkspaceProject[p] /\ hasDependencies[p])
           /\ p \in installing \cup installed \cup installRejected => installCount[p] = 1

\* An install is in flight after the loop passed a workspace project that
\* declares dependencies.
C11_Witness ==
    \E p \in installing : \E q \in Projects \ InstallAhead :
        /\ isWorkspaceProject[q]
        /\ hasDependencies[q]
        /\ installCount[q] = 0
        /\ installCount[p] = 1

\* C12: once an install has failed the run has failed: no install is invoked
\* for the projects still ahead, the installs done stay done, and the run reads
\* and validates no lockfile, links nothing, deletes or writes no cache file
\* and builds nothing.
C12_InstallFailureEndsRun ==
    installRejected # {} =>
        /\ pc = "failed"
        /\ error = Err("InstallError", installRejected)
        /\ Cardinality(installRejected) = 1
        /\ installing = {}
        /\ \A q \in InstallAhead : installCount[q] = 0
        /\ \A q \in Projects \ (InstallAhead \cup installRejected) :
               NeedsInstall(q) => (q \in installed /\ installCount[q] = 1)
        /\ effects \subseteq {"install"}
        /\ yarnLock = NoLock /\ checksums = <<>> /\ caches = <<>> /\ ~Decided
        /\ cacheFile = snapshot
        /\ \A p \in Projects : unit[p] = "pending" /\ invoked[p] = {}

\* An install failed after another was done, with a third project still to
\* install, in a run that found a cache record.
C12_Witness ==
    /\ installRejected # {}
    /\ installed # {}
    /\ \E q \in InstallAhead : NeedsInstall(q)
    /\ \E p \in Projects : snapshot[p] # Absent

\* C13: the build batches run strictly one after the other: no unit of a
\* later batch starts while a unit of an earlier batch has not settled.
C13_BatchesStrictlySequential ==
    \A p \in Projects : \A q \in Projects :
        (BatchOf(p) >= 1 /\ BatchOf(p) < BatchOf(q) /\ Started(q)) =>
            /\ Settled(p)
            /\ BatchOf(q) <= batchIndex

\* A unit is building while a unit of an earlier batch, of a project it does
\* not depend on, is done.
C13_Witness ==
    \E p \in Projects : \E q \in Projects \ {p} :
        /\ BatchOf(p) >= 1
        /\ BatchOf(p) < BatchOf(q)
        /\ p \notin projectGraph[q]
        /\ unit[q] = "building"
        /\ unit[p] = "done"

\* C14: after a unit of a batch has failed, the started units of the batch
\* are not cancelled: each stays in flight until its build returns, and one
\* whose build succeeds commits its record; the failure reaches the caller
\* only once every unit of the batch has settled.
C14_SiblingsFinishBeforeFailurePropagates ==
    /\ (pc = "build" /\ Failed # {}) => error = NoError
    /\ (pc = "failed" /\ error.kind = "BuildError") =>
           /\ InFlight = {}
           /\ \A p \in Projects : Started(p) => Settled(p)
           /\ \A p \in BuildBatches[batchIndex] : Settled(p)
    /\ Failed # {} =>
           \A q \in Projects :
               /\ unit[q] = "done" => cacheFile[q] = caches[q].expected
               /\ (Started(q) /\ ~Settled(q)) =>
                      (unit[q] = "building" \/ pc = "interrupted")

\* The failure has reached the caller after a sibling of the failed unit
\* committed its record, the failed unit having settled first.
C14_Witness ==
    /\ pc = "failed"
    /\ error.kind = "BuildError"
    /\ "commitAfterFailure" \in effects
    /\ \E p \in Failed : \E q \in BuildBatches[batchIndex] \ {p} :
           /\ p \in BuildBatches[batchIndex]
           /\ unit[q] = "done"
           /\ cacheFile[q] = caches[q].expected

\* C15: under a concurrency limit no more units than the limit are in flight;
\* a unit of the current batch that waits can start as soon as fewer units
\* than the limit are in flight, no batch is left with a unit that never
\* started, and a run that is done has completed every unit.
C15_InFlightWithinLimit ==
    concurrencyLimit # Unbounded =>
        /\ Cardinality(InFlight) <= concurrencyLimit[1]
        /\ \A p \in Projects :
               /\ ( /\ pc = "build"
                    /\ batchIndex \in 1..Len(batchedProjects)
                    /\ p \in batchedProjects[batchIndex]
                    /\ unit[p] = "pending"
                    /\ Cardinality(InFlight) < concurrencyLimit[1] )
                      => ENABLED StartUnit(p)
               /\ (BatchOf(p) >= 1 /\ BatchOf(p) < batchIndex) => Completed(p)
               /\ pc = "done" => Completed(p)

\* Three independent projects under a limit of two: one unit is done and the
\* two others are in flight, in the one batch of the run.
C15_Witness ==
    /\ concurrencyLimit = Limit(2)
    /\ projectGraph = NoEdges
    /\ Len(batchedProjects) = 1
    /\ batchedProjects[1] = Projects
    /\ Cardinality(InFlight) = 2
    /\ \E p \in Projects : unit[p] = "done"

\* C16: when the first build unit starts, every install is done, the lockfile
\* has been read and validated, the fingerprints are computed and every
\* project with a script or build targets has its decision; until the first
\* build unit starts no cache file is deleted or written.
C16_PhasesCompleteBeforeBuild ==
    /\ (\E p \in Projects : Started(p)) =>
           /\ installing = {} /\ installQueue = <<>>
           /\ \A q \in Projects : NeedsInstall(q) => q \in installed
           /\ {"readYarnLock", "validate"} \subseteq effects
           /\ yarnLock = lockFile
           /\ validateDependencies(yarnLock, options.singleVersion)
           /\ DOMAIN checksums = Projects
           /\ Decided
           /\ DOMAIN caches = {q \in Projects : NeedsBootstrap(q)}
    /\ (\A p \in Projects : ~Started(p)) =>
           /\ cacheFile = snapshot
           /\ effects \cap {"cacheDelete", "cacheWrite", "build"} = {}

\* After its installs a run has started its first unit, of a project decided
\* stale whose record the run found.
C16_Witness ==
    /\ pc = "build"
    /\ installed # {}
    /\ \E p \in DOMAIN caches :
           /\ {q \in Projects : Started(q)} = {p}
           /\ unit[p] = "building"
           /\ snapshot[p] # Absent

\* C17: within a run the cache file of a project changes only in a step of
\* the project's own unit (its start or the return of its build), a step that
\* moves no other unit; a unit that has started never starts again and a unit
\* that has settled stays as it is: one writer per record, never two at once.
C17_OneWriterPerRecord ==
    [][run' = run =>
         \A p \in Projects :
             /\ cacheFile'[p] # cacheFile[p] =>
                    /\ unit'[p] # unit[p]
                    /\ unit[p] = "building" \/ unit'[p] = "building"
                    /\ \A q \in Projects \ {p} :
                           unit'[q] = unit[q] /\ cacheFile'[q] = cacheFile[q]
             /\ Started(p) => unit'[p] # "pending"
             /\ unit'[p] = "building" => unit[p] \in {"pending", "building"}
             /\ Settled(p) => unit'[p] = unit[p]]_vars

\* Two units of one batch ran concurrently: one has written its record while
\* the other, which deleted the record the run found, is still in flight.
C17_Witness ==
    \E p \in Projects : \E q \in Projects \ {p} :
        /\ BatchOf(p) = BatchOf(q)
        /\ unit[p] = "done" /\ cacheFile[p] # Absent
        /\ unit[q] = "building" /\ snapshot[q] # Absent /\ cacheFile[q] = Absent

\* The unit of the project has done nothing: no delete, no build, no write.
Untouched(p) ==
    /\ unit[p] \in {"pending", "skipped"}
    /\ invoked[p] = {}
    /\ cacheFile[p] = snapshot[p]

\* C18: the unit of a project whose decision is valid, and the unit of a
\* project with neither a script nor build targets, deletes nothing, builds
\* nothing and writes nothing: the project's cache file, present or absent, is
\* through the run and at its end what it was at its start.
C18_UnitActsOnlyOnStale ==
    \A p \in Projects :
        /\ ~NeedsBootstrap(p) => (Untouched(p) /\ (Decided => p \notin DOMAIN caches))
        /\ (Decided /\ p \in DOMAIN caches /\ caches[p].valid) => Untouched(p)

\* A run is done that rebuilt one project, skipped a valid one whose record
\* is present, and skipped one with neither a script nor build targets.
C18_Witness ==
    /\ pc = "done"
    /\ \E p \in DOMAIN caches : \E q \in Projects : \E r \in Projects :
           /\ caches[p].valid /\ unit[p] = "skipped" /\ cacheFile[p] # Absent
           /\ ~NeedsBootstrap(q) /\ unit[q] = "skipped" /\ cacheFile[q] = Absent
           /\ unit[r] = "done" /\ snapshot[r] # Absent

\* C19: in a run that is done every project with a script or build targets
\* has a cache file that holds the fingerprint the run computed for it before
\* its build phase, skipped or rebuilt, with the cache option or without; the
\* fingerprint written is the one of the decision, not one computed later.
C19_DoneRunRecordsDecisionFingerprint ==
    /\ Decided => \A p \in DOMAIN caches : caches[p].expected = checksums[p]
    /\ pc = "done" =>
           \A p \in Projects :
               NeedsBootstrap(p) =>
                   /\ p \in DOMAIN caches
                   /\ unit[p] \in {"skipped", "done"}
                   /\ cacheFile[p] = checksums[p]

\* A run is done that skipped one project and rebuilt another whose inputs
\* changed while the build phase ran: its record holds the fingerprint of the
\* decision, no longer the fingerprint of its inputs.
C19_Witness ==
    /\ pc = "done"
    /\ \E p \in DOMAIN caches : \E q \in DOMAIN caches :
           /\ unit[p] = "done"
           /\ cacheFile[p] = checksums[p]
           /\ cacheFile[p] # Fingerprint(p, lockFile)
           /\ unit[q] = "skipped"

\* C20: once computed, the fingerprints and the decisions of a run stay as
\* they are through its build phase, and no step of the run starts a build
\* for, or changes the cache file of, a project decided valid, whatever
\* happened to its dependencies earlier in the run.
C20_DecisionsFixedBeforeBuild ==
    [][(Decided /\ run' = run) =>
          /\ caches' = caches
          /\ checksums' = checksums
          /\ \A p \in DOMAIN caches :
                 caches[p].valid =>
                     /\ unit'[p] \in {"pending", "skipped"}
                     /\ invoked'[p] = {}
                     /\ cacheFile'[p] = cacheFile[p]]_vars

\* A project decided valid was skipped after a dependency of it, decided
\* stale, was rebuilt in an earlier batch of the same run.
C20_Witness ==
    \E b \in DOMAIN caches : \E a \in projectGraph[b] \cap DOMAIN caches :
        /\ caches[b].valid
        /\ ~caches[a].valid
        /\ BatchOf(a) < BatchOf(b)
        /\ unit[a] = "done"
        /\ snapshot[a] # Absent
        /\ unit[b] = "skipped"
====
